---- MODULE Spec2Model ----
(***************************************************************************)
(* Model of src/server.py: the TradingView -> Telegram -> MT4 bridge.      *)
(*                                                                         *)
(* The Flask application keeps two module-level containers, QUEUE (a       *)
(* deque(maxlen=200) of signal ids) and SIGNALS (a dict id -> signal       *)
(* dict), and mutates them from the request handlers /tv, /next, /pop and  *)
(* /tg without any lock.  app.run() serves each request on its own thread, *)
(* so the handlers interleave between their individual container accesses. *)
(* Each access (one deque or dict method call) is one atomic step here;    *)
(* the purely local work before the first access of a handler (reading the *)
(* request, authorisation, validation) is folded into its first step.      *)
(*                                                                         *)
(* Strings whose content the code inspects (strip, lower, split) are       *)
(* sequences of one-character strings; values the code only compares or    *)
(* stores are opaque strings.  Signal ids (uuid4 strings) are the integers *)
(* 1..MaxIds, handed out by a counter; 0 is Python's None / empty id.      *)
(* A signal dict is kept as its id and its status, the one field that is   *)
(* written after creation; the descriptive fields (symbol, side,           *)
(* ordertype, timeframe, strategy, price, ts) are written once at line 153 *)
(* and read by no handler afterwards, so they exist only as the locals of  *)
(* /tv that validation reads.  A signal dict lives as long as SIGNALS or a *)
(* handler's local variable refers to it (CPython reference counting).     *)
(***************************************************************************)
EXTENDS Integers, Sequences, FiniteSets, TLC

\* ---------------------------------------------------------------- bounds
\* deque(maxlen=200) at src/server.py:22, scaled down so that overflow happens
maxlen == 2
\* number of uuid4 values the run may draw
MaxIds == 3
\* number of requests that may be in flight at once
NumThreads == 2

Threads == 1..NumThreads

\* ---------------------------------------------------------------- values
\* Python None, in a slot that otherwise holds a string
None == "None"
\* Python None / "" in a slot that otherwise holds a signal id
NoId == 0
\* a well-formed id that uuid4 never returned
UnknownId == MaxIds + 1

VARIABLES
    SECRET,      \* os.environ SECRET
    TG_CHAT_ID,  \* os.environ TG_CHAT_ID
    QUEUE,       \* deque of ids, oldest first
    SIGNALS,     \* dict: id -> reference to a signal dict
    signal,      \* the signal dicts ever created, by reference (= their id)
    nextId,      \* the next value uuid4 returns
    pc,          \* per request thread: the line it is about to execute
    loc,         \* per thread: the handler's locals sid, sig (a reference), action,
                 \*   chat_id, ordertype, price
    resp         \* per thread: the response being returned

vars == <<SECRET, TG_CHAT_ID, QUEUE, SIGNALS, signal, nextId, pc, loc, resp>>

env == <<SECRET, TG_CHAT_ID>>

\* ---------------------------------------------------------------- strings
S_empty == <<>>
S_EU == <<"E", "U">>
S_EU_padded == <<" ", "E", "U", " ">>
S_blank == <<" ", " ">>
S_buy == <<"b", "u", "y">>
S_BUY == <<"B", "U", "Y">>
S_sell == <<"s", "e", "l", "l">>
S_hold == <<"h", "o", "l", "d">>
S_market == <<"m", "a", "r", "k", "e", "t">>
S_limit == <<"l", "i", "m", "i", "t">>
S_LIMIT_padded == <<"L", "I", "M", "I", "T", " ">>

\* str.lower() on one character
LowerChar(c) ==
    CASE c = "B" -> "b" [] c = "U" -> "u" [] c = "Y" -> "y"
      [] c = "L" -> "l" [] c = "I" -> "i" [] c = "M" -> "m" [] c = "T" -> "t"
      [] c = "E" -> "e" [] OTHER -> c

\* str.lower()
Lower(s) == [i \in 1..Len(s) |-> LowerChar(s[i])]

RECURSIVE LStrip(_)
LStrip(s) == IF s # <<>> /\ Head(s) = " " THEN LStrip(Tail(s)) ELSE s

RECURSIVE RStrip(_)
RStrip(s) ==
    IF s # <<>> /\ s[Len(s)] = " " THEN RStrip(SubSeq(s, 1, Len(s) - 1)) ELSE s

\* str.strip()
Strip(s) == RStrip(LStrip(s))

\* (data.get(k) or "")
GetOrEmpty(data, k) == IF k \in DOMAIN data THEN data[k] ELSE S_empty

\* data.get(k, None), for the opaque string slots
GetOrNone(data, k) == IF k \in DOMAIN data THEN data[k] ELSE None

\* ---------------------------------------------------------------- containers
Range(q) == {q[i] : i \in 1..Len(q)}

\* an append that never drops the left end
DequeAppend_Unbounded(q, x) == Append(q, x)

\* deque.append on a deque(maxlen=...): a full deque drops its left end
DequeAppend(q, x) ==
    IF Len(q) >= maxlen THEN Append(Tail(q), x) ELSE Append(q, x)

\* index of the first occurrence of x in q (x occurs in q)
FirstIndex(q, x) == CHOOSE i \in 1..Len(q) : q[i] = x /\ \A j \in 1..(i - 1) : q[j] # x

\* a removal that takes the head whenever x is queued
DequeRemove_Head(q, x) == IF x \in Range(q) THEN Tail(q) ELSE q

\* deque.remove(x) inside try/except: the first occurrence goes, ValueError is swallowed
DequeRemove(q, x) ==
    IF x \in Range(q)
    THEN LET i == FirstIndex(q, x)
         IN  SubSeq(q, 1, i - 1) \o SubSeq(q, i + 1, Len(q))
    ELSE q

\* dict.get(k): the reference stored under k, or None
DictGet(d, k) == IF k \in DOMAIN d THEN d[k] ELSE NoId

\* d[k] = v
DictSet(d, k, v) == [x \in DOMAIN d \cup {k} |-> IF x = k THEN v ELSE d[x]]

\* a pop that leaves the key in place
DictPop_Keeps(d, k) == d

\* dict.pop(k, None)
DictPop(d, k) == [x \in DOMAIN d \ {k} |-> d[x]]

\* ---------------------------------------------------------------- responses
NoSignal == <<>>

\* an HTTP response; ack is the text sent back to Telegram with
\* answerCallbackQuery, tg the results of the tg_api calls the request made
Response(route, code, error, id, pending, body, ack) ==
    [route |-> route, code |-> code, error |-> error,
     id |-> id, pending |-> pending, signal |-> body, ack |-> ack, tg |-> <<>>]

NoResp == Response("", 0, "", NoId, 0, NoSignal, "")

\* bad(msg, code)
bad(route, msg, code) == Response(route, code, msg, NoId, 0, NoSignal, "")

\* jsonify({"ok": True, ...})
ok(route, id, pending, body) == Response(route, 200, "", id, pending, body, "")

\* jsonify({"ok": True}) of /tg, after answerCallbackQuery(text)
tg_ok(text) == Response("tg", 200, "", NoId, 0, NoSignal, text)

\* an uncaught exception in a handler: Flask answers 500
crash(route, exc) == Response(route, 500, exc, NoId, 0, NoSignal, "")

\* ---------------------------------------------------------------- Telegram
\* what becomes of one call to the Bot API: a JSON answer with ok true, a JSON
\* answer with ok false (or no TG_BOT_TOKEN, line 35), an exception in
\* requests.post or r.json()
TgOutcomes == {"ok", "not_ok", "exception"}

\* lines 30-44: tg_api returns a dict whatever happens
tg_api(o) ==
    CASE o = "ok" -> [ok |-> TRUE, error |-> ""]
      [] o = "not_ok" -> [ok |-> FALSE, error |-> "refused"]
      [] o = "exception" -> [ok |-> FALSE, error |-> "exception"]

\* ---------------------------------------------------------------- requests
TheSecret == "s3cret"
TheChat == "42"

\* JSON bodies of POST /tv
TvBodies ==
    { [secret |-> TheSecret, symbol |-> S_EU, side |-> S_BUY, ordertype |-> S_market],
      [secret |-> TheSecret, symbol |-> S_EU_padded, side |-> S_buy,
       ordertype |-> S_LIMIT_padded, price |-> "1.25"],
      [secret |-> TheSecret, symbol |-> S_EU, side |-> S_buy, ordertype |-> S_limit],
      [secret |-> TheSecret, symbol |-> S_EU, side |-> S_buy, ordertype |-> S_limit,
       price |-> "abc"],
      [secret |-> TheSecret, symbol |-> S_blank, side |-> S_buy, ordertype |-> S_market],
      [secret |-> TheSecret, side |-> S_buy, ordertype |-> S_market],
      [secret |-> TheSecret, symbol |-> S_EU, side |-> S_hold, ordertype |-> S_market],
      [secret |-> TheSecret, symbol |-> S_EU, side |-> S_sell],
      [secret |-> "wrong", symbol |-> S_EU, side |-> S_buy, ordertype |-> S_market],
      [secret |-> "", symbol |-> S_EU, side |-> S_buy, ordertype |-> S_market],
      [symbol |-> S_EU, side |-> S_buy, ordertype |-> S_market],
      [secret |-> TheSecret, symbol |-> S_EU, side |-> S_sell, ordertype |-> S_blank],
      [secret |-> TheSecret, symbol |-> S_blank, side |-> S_hold],
      [secret |-> "wrong", symbol |-> S_blank, side |-> S_hold],
      [secret |-> "wrong", symbol |-> S_EU, side |-> S_buy, ordertype |-> S_limit],
      [side |-> S_hold],
      <<>> }

\* ids a client can name: uuid4 values are unguessable, so an id is known
\* outside the process only once /tv has passed it to Telegram or returned it
Hidden == {loc[t].sid : t \in {u \in Threads : pc[u] \in {"tv_store", "tv_append"}}}
Known == (1..(nextId - 1)) \ Hidden
ClientIds == Known \cup {UnknownId}

\* JSON bodies of POST /pop
PopBodies ==
    { [secret |-> s, id |-> i] : s \in {TheSecret, "wrong", ""}, i \in ClientIds }
    \cup { [id |-> i] : i \in ClientIds }
    \cup { [secret |-> TheSecret], [secret |-> TheSecret, id |-> NoId], [secret |-> ""],
           <<>> }

\* callback_data is a string of tokens: a word, the colon, or a signal id
Tok(w) == [w |-> w, i |-> NoId]
IdTok(i) == [w |-> "", i |-> i]
Colon == Tok(":")
APPROVE == <<Tok("APPROVE")>>
DENY == <<Tok("DENY")>>

\* callback data without a colon
BareData == { APPROVE, <<>> }

CallbackData ==
    { <<Tok(a), Colon, IdTok(i)>> : a \in {"APPROVE", "DENY", "FOO"}, i \in ClientIds }
    \cup BareData \cup { <<Tok("DENY"), Colon>> }
    \cup { <<Tok("DENY"), Colon, IdTok(i), Colon, Tok("x")>> : i \in ClientIds }

\* Telegram chat ids are JSON numbers
ApproverChat == 42
OtherChat == 99

\* str(n) for the chat ids used
Str(n) == CASE n = ApproverChat -> "42" [] n = OtherChat -> "99"

\* JSON bodies of POST /tg
TgBodies ==
    { [callback_query |-> [id |-> "cb", data |-> d, message |-> [chat |-> [id |-> c]]]] :
          d \in CallbackData, c \in {ApproverChat, OtherChat} }
    \cup { [callback_query |-> [id |-> "cb", data |-> d]] : d \in CallbackData }
    \cup { [message |-> [text |-> "hi"]] }

\* ---------------------------------------------------------------- Init
\* the locals of a thread that runs no handler
NoLocals ==
    [sid |-> NoId, sig |-> NoId, action |-> <<>>, chat_id |-> "",
     ordertype |-> S_empty, price |-> None]

Init ==
    /\ SECRET \in {"", TheSecret}
    /\ TG_CHAT_ID \in {"", TheChat}
    /\ QUEUE = <<>>
    /\ SIGNALS = <<>>
    /\ signal = <<>>
    /\ nextId = 1
    /\ pc = [t \in Threads |-> "idle"]
    /\ loc = [t \in Threads |-> NoLocals]
    /\ resp = [t \in Threads |-> NoResp]

\* the handler returns: the response is complete, its locals are gone
Return(t, r) ==
    /\ pc' = [pc EXCEPT ![t] = "done"]
    /\ resp' = [resp EXCEPT ![t] = r]
    /\ loc' = [loc EXCEPT ![t] = NoLocals]

\* the handler goes on to the line label, with locals l
Goto(t, label, l) ==
    /\ pc' = [pc EXCEPT ![t] = label]
    /\ loc' = [loc EXCEPT ![t] = l]
    /\ UNCHANGED resp

\* the signal dicts something refers to: the values of SIGNALS, the locals sig,
\* and the local signal of a /tv handler
Refs(S, p, l) ==
    {S[k] : k \in DOMAIN S}
    \cup {l[t].sig : t \in Threads}
    \cup {l[t].sid : t \in {u \in Threads : p[u] \in {"tv_store", "tv_append", "tv_return"}}}

\* the dicts of h that are still referred to after the step
Live(h) == [i \in DOMAIN h \cap Refs(SIGNALS', pc', loc') |-> h[i]]

\* the handler makes n calls to tg_api, drops their results, and returns r
Answer(t, r, n) ==
    \E os \in [1..n -> TgOutcomes] :
        Return(t, [r EXCEPT !.tg = [k \in 1..n |-> tg_api(os[k])]])

\* ---------------------------------------------------------------- POST /tv
\* a validation that lets any side through
TvCheck_AnySide(data) ==
    IF SECRET = "" THEN bad("tv", "server SECRET not set", 500)
    ELSE IF GetOrNone(data, "secret") # SECRET THEN bad("tv", "unauthorized", 401)
    ELSE IF Strip(GetOrEmpty(data, "symbol")) = S_empty
    THEN bad("tv", "missing symbol", 400)
    ELSE IF Strip(Lower(GetOrEmpty(data, "ordertype"))) = S_empty
    THEN bad("tv", "missing ordertype", 400)
    ELSE NoResp

\* a check that takes a request without a secret as authorised
TvCheck_AbsentSecretPasses(data) ==
    IF SECRET = "" THEN bad("tv", "server SECRET not set", 500)
    ELSE IF "secret" \in DOMAIN data /\ data.secret # SECRET
    THEN bad("tv", "unauthorized", 401)
    ELSE IF Strip(GetOrEmpty(data, "symbol")) = S_empty
    THEN bad("tv", "missing symbol", 400)
    ELSE IF Strip(Lower(GetOrEmpty(data, "side"))) \notin {S_buy, S_sell}
    THEN bad("tv", "invalid side", 400)
    ELSE IF Strip(Lower(GetOrEmpty(data, "ordertype"))) = S_empty
    THEN bad("tv", "missing ordertype", 400)
    ELSE NoResp

\* lines 132-150: the early returns of tv_webhook; NoResp when none is taken
TvCheck(data) ==
    IF SECRET = "" THEN bad("tv", "server SECRET not set", 500)
    ELSE IF GetOrNone(data, "secret") # SECRET THEN bad("tv", "unauthorized", 401)
    ELSE IF Strip(GetOrEmpty(data, "symbol")) = S_empty
    THEN bad("tv", "missing symbol", 400)
    ELSE IF Strip(Lower(GetOrEmpty(data, "side"))) \notin {S_buy, S_sell}
    THEN bad("tv", "invalid side", 400)
    ELSE IF Strip(Lower(GetOrEmpty(data, "ordertype"))) = S_empty
    THEN bad("tv", "missing ordertype", 400)
    ELSE NoResp

\* lines 130-163: read the body, authorise, validate, build the signal dict
TvRequest(t) ==
    /\ pc[t] = "idle"
    /\ UNCHANGED <<env, QUEUE, SIGNALS>>
    /\ \E data \in TvBodies :
         LET ordertype == Strip(Lower(GetOrEmpty(data, "ordertype")))
             price == GetOrNone(data, "price")
         IN  IF TvCheck(data) # NoResp
             THEN Return(t, TvCheck(data)) /\ UNCHANGED <<signal, nextId>>
             ELSE /\ nextId <= MaxIds
                  /\ nextId' = nextId + 1
                  /\ Goto(t, "tv_store",
                          [loc[t] EXCEPT !.sid = nextId, !.ordertype = ordertype,
                                         !.price = price])
                  /\ signal' = DictSet(signal, nextId,
                                  [id |-> nextId, status |-> "pending"])

\* line 165: SIGNALS[sid] = signal
TvStore(t) ==
    /\ pc[t] = "tv_store"
    /\ SIGNALS' = DictSet(SIGNALS, loc[t].sid, loc[t].sid)
    /\ Goto(t, "tv_append", loc[t])
    /\ UNCHANGED <<env, QUEUE, signal, nextId>>

\* line 166: QUEUE.append(sid)
TvAppend(t) ==
    /\ pc[t] = "tv_append"
    /\ QUEUE' = DequeAppend(QUEUE, loc[t].sid)
    /\ Goto(t, "tv_return", loc[t])
    /\ UNCHANGED <<env, SIGNALS, signal, nextId>>

\* a /tv that takes the signal back and answers 502 when the approval
\* message cannot be delivered
TvReturn_RollsBack(t) ==
    /\ pc[t] = "tv_return"
    /\ UNCHANGED <<env, nextId>>
    /\ \E o \in TgOutcomes :
         IF TG_CHAT_ID = "" \/ o = "ok"
         THEN /\ Return(t, [ok("tv", loc[t].sid, Len(QUEUE), NoSignal)
                               EXCEPT !.tg = IF TG_CHAT_ID = "" THEN <<>> ELSE <<tg_api(o)>>])
              /\ UNCHANGED <<QUEUE, SIGNALS>>
              /\ signal' = Live(signal)
         ELSE /\ Return(t, [bad("tv", "telegram failed", 502) EXCEPT !.tg = <<tg_api(o)>>])
              /\ QUEUE' = DequeRemove(QUEUE, loc[t].sid)
              /\ SIGNALS' = DictPop(SIGNALS, loc[t].sid)
              /\ signal' = Live(signal)

\* lines 169-171: tg_send_approval(signal), which calls tg_api once unless
\* TG_CHAT_ID is empty, then the response, which carries len(QUEUE)
TvReturn(t) ==
    /\ pc[t] = "tv_return"
    /\ Answer(t, ok("tv", loc[t].sid, Len(QUEUE), NoSignal),
              IF TG_CHAT_ID = "" THEN 0 ELSE 1)
    /\ UNCHANGED <<env, QUEUE, SIGNALS, nextId>>
    /\ signal' = Live(signal)

\* ---------------------------------------------------------------- GET /next
\* line 183: if not QUEUE
NextRequest(t) ==
    /\ pc[t] = "idle"
    /\ IF QUEUE = <<>>
       THEN Return(t, ok("next", NoId, 0, NoSignal))
       ELSE Goto(t, "next_head", loc[t])
    /\ UNCHANGED <<env, QUEUE, SIGNALS, signal, nextId>>

\* line 186: sid = QUEUE[0]
NextHead(t) ==
    /\ pc[t] = "next_head"
    /\ IF QUEUE = <<>>
       THEN Return(t, crash("next", "IndexError"))
       ELSE Goto(t, "next_get", [loc[t] EXCEPT !.sid = QUEUE[1]])
    /\ UNCHANGED <<env, QUEUE, SIGNALS, signal, nextId>>

\* lines 187-188: sig = SIGNALS.get(sid); if not sig
NextGet(t) ==
    /\ pc[t] = "next_get"
    /\ LET s == DictGet(SIGNALS, loc[t].sid)
       IN  Goto(t, IF s = NoId THEN "next_popleft" ELSE "next_return",
                [loc[t] EXCEPT !.sig = s])
    /\ UNCHANGED <<env, QUEUE, SIGNALS, signal, nextId>>

\* lines 189-190: QUEUE.popleft(), answer null
NextPopleft(t) ==
    /\ pc[t] = "next_popleft"
    /\ IF QUEUE = <<>>
       THEN Return(t, crash("next", "IndexError")) /\ UNCHANGED QUEUE
       ELSE QUEUE' = Tail(QUEUE) /\ Return(t, ok("next", NoId, 0, NoSignal))
    /\ UNCHANGED <<env, SIGNALS, signal, nextId>>

\* line 192: jsonify serialises the dict that sig refers to, as it is now
NextReturn(t) ==
    /\ pc[t] = "next_return"
    /\ Return(t, ok("next", NoId, 0, <<signal[loc[t].sig]>>))
    /\ UNCHANGED <<env, QUEUE, SIGNALS, nextId>>
    /\ signal' = Live(signal)

\* ---------------------------------------------------------------- POST /pop
\* data.get("id")
GetId(data) == IF "id" \in DOMAIN data THEN data.id ELSE NoId

\* lines 201-206: the early returns of pop_signal; NoResp when none is taken
PopCheck(data) ==
    IF GetOrNone(data, "secret") # SECRET THEN bad("pop", "unauthorized", 401)
    ELSE IF GetId(data) = NoId THEN bad("pop", "missing id", 400)
    ELSE NoResp

\* lines 200-206: read the body, authorise, read the id
PopRequest(t) ==
    /\ pc[t] = "idle"
    /\ \E data \in PopBodies :
         IF PopCheck(data) # NoResp
         THEN Return(t, PopCheck(data))
         ELSE Goto(t, "pop_remove", [loc[t] EXCEPT !.sid = GetId(data)])
    /\ UNCHANGED <<env, QUEUE, SIGNALS, signal, nextId>>

\* a /pop that deletes the record first and leaves the id in QUEUE
PopRemove_StoreFirst(t) ==
    /\ pc[t] = "pop_remove"
    /\ SIGNALS' = DictPop(SIGNALS, loc[t].sid)
    /\ Goto(t, "pop_delete", loc[t])
    /\ UNCHANGED <<env, QUEUE, nextId>>
    /\ signal' = Live(signal)

\* lines 208-211: QUEUE.remove(sid), ValueError swallowed
PopRemove(t) ==
    /\ pc[t] = "pop_remove"
    /\ QUEUE' = DequeRemove(QUEUE, loc[t].sid)
    /\ Goto(t, "pop_delete", loc[t])
    /\ UNCHANGED <<env, SIGNALS, signal, nextId>>

\* line 213: SIGNALS.pop(sid, None)
PopDelete(t) ==
    /\ pc[t] = "pop_delete"
    /\ SIGNALS' = DictPop(SIGNALS, loc[t].sid)
    /\ Goto(t, "pop_return", loc[t])
    /\ UNCHANGED <<env, QUEUE, nextId>>
    /\ signal' = Live(signal)

\* line 214: the response carries len(QUEUE)
PopReturn(t) ==
    /\ pc[t] = "pop_return"
    /\ Return(t, ok("pop", NoId, Len(QUEUE), NoSignal))
    /\ UNCHANGED <<env, QUEUE, SIGNALS, signal, nextId>>

\* ---------------------------------------------------------------- POST /tg
\* ":" in data
HasColon(data) == \E i \in 1..Len(data) : data[i] = Colon

\* data.split(":", 1): the parts before and after the first colon
Split(data) ==
    LET i == CHOOSE k \in 1..Len(data) :
                 data[k] = Colon /\ \A j \in 1..(k - 1) : data[j] # Colon
    IN  <<SubSeq(data, 1, i - 1), SubSeq(data, i + 1, Len(data))>>

\* the dict key a sid string is: an id uuid4 made, or some other string
KeyOf(s) ==
    IF s = <<>> THEN NoId
    ELSE IF Len(s) = 1 /\ s[1].w = "" THEN s[1].i
    ELSE UnknownId

\* str(chat.get("id", "")) over cq.get("message", {}).get("chat", {})
ChatIdOf(cq) ==
    IF "message" \in DOMAIN cq THEN Str(cq.message.chat.id) ELSE ""

\* lines 224-243: the early returns of telegram_webhook; NoResp when none is
\* taken
TgCheck(upd) ==
    IF "callback_query" \notin DOMAIN upd THEN tg_ok("")
    ELSE IF TG_CHAT_ID # "" /\ ChatIdOf(upd.callback_query) # TG_CHAT_ID
    THEN tg_ok("No autorizado")
    ELSE IF ~HasColon(upd.callback_query.data) THEN tg_ok("Accion invalida")
    ELSE NoResp

\* lines 222-245: read the update, check the chat, split the callback data
TgRequest(t) ==
    /\ pc[t] = "idle"
    /\ \E upd \in TgBodies :
         IF TgCheck(upd) # NoResp
         THEN Answer(t, TgCheck(upd), IF TgCheck(upd).ack = "" THEN 0 ELSE 1)
         ELSE LET cq == upd.callback_query
                  data == cq.data
                  chat_id == ChatIdOf(cq)
              IN  Goto(t, "tg_get",
                       [loc[t] EXCEPT !.chat_id = chat_id,
                                      !.action = Split(data)[1],
                                      !.sid = KeyOf(Split(data)[2])])
    /\ UNCHANGED <<env, QUEUE, SIGNALS, signal, nextId>>

\* a dispatch that takes every action other than APPROVE for a denial
TgGet_ElseDenies(t) ==
    /\ pc[t] = "tg_get"
    /\ LET s == DictGet(SIGNALS, loc[t].sid)
       IN  IF s = NoId THEN Answer(t, tg_ok("Senal no encontrada"), 1)
           ELSE IF loc[t].action = APPROVE
           THEN Goto(t, "tg_approve", [loc[t] EXCEPT !.sig = s])
           ELSE Goto(t, "tg_deny", [loc[t] EXCEPT !.sig = s])
    /\ UNCHANGED <<env, QUEUE, SIGNALS, signal, nextId>>

\* lines 246-251, 256, 268: sig = SIGNALS.get(sid), dispatch on action
TgGet(t) ==
    /\ pc[t] = "tg_get"
    /\ LET s == DictGet(SIGNALS, loc[t].sid)
       IN  IF s = NoId THEN Answer(t, tg_ok("Senal no encontrada"), 1)
           ELSE IF loc[t].action = APPROVE
           THEN Goto(t, "tg_approve", [loc[t] EXCEPT !.sig = s])
           ELSE IF loc[t].action = DENY
           THEN Goto(t, "tg_deny", [loc[t] EXCEPT !.sig = s])
           ELSE Answer(t, tg_ok("Accion invalida"), 1)
    /\ UNCHANGED <<env, QUEUE, SIGNALS, signal, nextId>>

\* an approval that also takes the id out of QUEUE, as a denial does
TgApprove_Dequeues(t) ==
    /\ pc[t] = "tg_approve"
    /\ QUEUE' = DequeRemove(QUEUE, loc[t].sid)
    /\ Answer(t, tg_ok("Aceptada"), 2)
    /\ UNCHANGED <<env, SIGNALS, nextId>>
    /\ signal' = Live([signal EXCEPT ![loc[t].sig].status = "approved"])

\* an approval that puts an approved signal back to pending
TgApprove_Toggles(t) ==
    /\ pc[t] = "tg_approve"
    /\ Answer(t, tg_ok("Aceptada"), 2)
    /\ UNCHANGED <<env, QUEUE, SIGNALS, nextId>>
    /\ signal' = Live([signal EXCEPT ![loc[t].sig].status =
                          IF @ = "approved" THEN "pending" ELSE "approved"])

\* lines 252-254: sig["status"] = "approved", then the two Telegram calls
TgApprove(t) ==
    /\ pc[t] = "tg_approve"
    /\ Answer(t, tg_ok("Aceptada"), 2)
    /\ UNCHANGED <<env, QUEUE, SIGNALS, nextId>>
    /\ signal' = Live([signal EXCEPT ![loc[t].sig].status = "approved"])

\* line 257: sig["status"] = "denied"
TgDeny(t) ==
    /\ pc[t] = "tg_deny"
    /\ signal' = [signal EXCEPT ![loc[t].sig].status = "denied"]
    /\ Goto(t, "tg_deny_remove", loc[t])
    /\ UNCHANGED <<env, QUEUE, SIGNALS, nextId>>

\* lines 259-262: QUEUE.remove(sid), ValueError swallowed
TgDenyRemove(t) ==
    /\ pc[t] = "tg_deny_remove"
    /\ QUEUE' = DequeRemove(QUEUE, loc[t].sid)
    /\ Goto(t, "tg_deny_delete", loc[t])
    /\ UNCHANGED <<env, SIGNALS, signal, nextId>>

\* a denial that forgets to delete the record
TgDenyDelete_KeepsRecord(t) ==
    /\ pc[t] = "tg_deny_delete"
    /\ Answer(t, tg_ok("Denegada"), 2)
    /\ UNCHANGED <<env, QUEUE, SIGNALS, nextId>>
    /\ signal' = Live(signal)

\* lines 263-266: SIGNALS.pop(sid, None), then the two Telegram calls
TgDenyDelete(t) ==
    /\ pc[t] = "tg_deny_delete"
    /\ SIGNALS' = DictPop(SIGNALS, loc[t].sid)
    /\ Answer(t, tg_ok("Denegada"), 2)
    /\ UNCHANGED <<env, QUEUE, nextId>>
    /\ signal' = Live(signal)

\* ---------------------------------------------------------------- threads
\* the response is sent and the thread serves the next request
Finish(t) ==
    /\ pc[t] = "done"
    /\ pc' = [pc EXCEPT ![t] = "idle"]
    /\ resp' = [resp EXCEPT ![t] = NoResp]
    /\ UNCHANGED <<env, QUEUE, SIGNALS, signal, nextId, loc>>

Next ==
    \E t \in Threads :
        \/ TvRequest(t) \/ TvStore(t) \/ TvAppend(t) \/ TvReturn(t)
        \/ NextRequest(t) \/ NextHead(t) \/ NextGet(t) \/ NextPopleft(t) \/ NextReturn(t)
        \/ PopRequest(t) \/ PopRemove(t) \/ PopDelete(t) \/ PopReturn(t)
        \/ TgRequest(t) \/ TgGet(t) \/ TgApprove(t) \/ TgDeny(t)
        \/ TgDenyRemove(t) \/ TgDenyDelete(t)
        \/ Finish(t)

Spec == Init /\ [][Next]_vars

\* ================================================================ properties
\* thread t takes the step
Stepped(t) == pc'[t] # pc[t]

\* the lines of /tg behind the chat check
TgPcs == {"tg_get", "tg_approve", "tg_deny", "tg_deny_remove", "tg_deny_delete"}

\* the lines of /tv behind authorisation and validation
TvPcs == {"tv_store", "tv_append", "tv_return"}

\* the lines of /pop behind authorisation
PopPcs == {"pop_remove", "pop_delete", "pop_return"}

InQueue(i) == i \in Range(QUEUE)
InStore(i) == i \in DOMAIN SIGNALS

\* the status of every signal dict is as it was
StatusesUnchanged ==
    \A i \in DOMAIN signal : i \in DOMAIN signal' => signal'[i].status = signal[i].status

\* C1: when the append of an accepted POST /tv finds QUEUE full and evicts the
\* oldest id, that id has no record in SIGNALS right after the eviction.
C1_EvictedIdLeavesStore ==
    [][\A t \in Threads :
          (pc[t] = "tv_append" /\ Stepped(t) /\ Len(QUEUE) >= maxlen)
              => QUEUE[1] \notin DOMAIN SIGNALS']_vars

\* C2: approved is terminal: no step of a /tg handler changes the status of an
\* approved signal or takes it out of QUEUE or SIGNALS, and every change of a
\* status starts from pending.
C2_ApprovedIsTerminal ==
    [][/\ \A i \in DOMAIN signal :
            (signal[i].status = "approved" /\ \E t \in Threads : pc[t] \in TgPcs /\ Stepped(t))
                => /\ InStore(i) => i \in DOMAIN SIGNALS'
                   /\ InQueue(i) => i \in Range(QUEUE')
                   /\ i \in DOMAIN signal' => signal'[i].status = "approved"
       /\ \A i \in DOMAIN signal :
            (i \in DOMAIN signal' /\ signal'[i].status # signal[i].status)
                => signal[i].status = "pending"]_vars

\* C3: a step of a /tg handler whose chat identity differs from TG_CHAT_ID
\* changes neither QUEUE nor SIGNALS nor any status.
C3_OtherChatChangesNothing ==
    [][\A t \in Threads :
          (pc[t] \in TgPcs /\ Stepped(t) /\ loc[t].chat_id # TG_CHAT_ID)
              => /\ UNCHANGED <<QUEUE, SIGNALS>>
                 /\ StatusesUnchanged]_vars

\* C4: with SECRET empty no POST /tv and no POST /pop gets past authorisation,
\* and none is answered ok.
C4_EmptySecretDenies ==
    SECRET = "" =>
        \A t \in Threads :
            /\ pc[t] \notin TvPcs \cup PopPcs
            /\ (pc[t] = "done" /\ resp[t].route \in {"tv", "pop"}) => resp[t].code # 200

\* C5: when a DENY callback has done its last container access its id is in
\* neither QUEUE nor SIGNALS; an id a client knows that is in neither never
\* comes back into either; removing the head makes the following id the head;
\* and /next reads as head only an id that is in QUEUE.
C5_DeniedStaysGone ==
    [][/\ \A t \in Threads :
            (pc[t] = "tg_deny_delete" /\ Stepped(t))
                => /\ loc[t].sid \notin Range(QUEUE')
                   /\ loc[t].sid \notin DOMAIN SIGNALS'
       /\ \A i \in Known :
            (~InQueue(i) /\ ~InStore(i))
                => i \notin Range(QUEUE') /\ i \notin DOMAIN SIGNALS'
       /\ \A t \in Threads :
            (pc[t] = "tg_deny_remove" /\ Stepped(t) /\ QUEUE # <<>> /\ QUEUE[1] = loc[t].sid)
                => QUEUE' = Tail(QUEUE)
       /\ \A t \in Threads :
            (pc[t] = "next_head" /\ pc'[t] = "next_get") => InQueue(loc'[t].sid)]_vars

\* a DENY callback has completed while another signal is queued, and its id is gone
C5_Witness ==
    \E t \in Threads :
        /\ pc[t] = "done" /\ resp[t].ack = "Denegada"
        /\ QUEUE # <<>>
        /\ \E i \in Known : ~InQueue(i) /\ ~InStore(i)

\* C6: the steps of an APPROVE callback change nothing but the status of the
\* dict it looked up, which becomes approved: QUEUE and SIGNALS are as before
\* and every other record is as before.
C6_ApproveChangesOnlyStatus ==
    [][\A t \in Threads :
          /\ (pc[t] = "tg_approve" /\ Stepped(t))
                => /\ QUEUE' = QUEUE
                   /\ SIGNALS' = SIGNALS
                   /\ \A i \in DOMAIN SIGNALS :
                        signal'[SIGNALS'[i]] =
                            IF SIGNALS[i] = loc[t].sig
                            THEN [signal[SIGNALS[i]] EXCEPT !.status = "approved"]
                            ELSE signal[SIGNALS[i]]
          /\ (Stepped(t) /\ pc'[t] \in {"tg_get", "tg_approve"} /\ loc'[t].action = APPROVE)
                => UNCHANGED <<QUEUE, SIGNALS, signal>>]_vars

\* an APPROVE callback has completed for a pending signal that is queued behind another
C6_Witness ==
    \E t \in Threads :
        /\ pc[t] = "done" /\ resp[t].ack = "Aceptada"
        /\ Len(QUEUE) >= 2
        /\ InStore(QUEUE[2]) /\ signal[SIGNALS[QUEUE[2]]].status = "approved"
        /\ InStore(QUEUE[1]) /\ signal[SIGNALS[QUEUE[1]]].status = "pending"

\* C7: QUEUE never holds more than maxlen ids.
C7_QueueBounded == Len(QUEUE) <= maxlen

\* more ids have been appended than QUEUE holds, and QUEUE is full
C7_Witness ==
    /\ Len(QUEUE) = maxlen
    /\ \E t \in Threads : pc[t] = "tv_return" /\ QUEUE[maxlen] = loc[t].sid
    /\ \E i \in DOMAIN SIGNALS : ~InQueue(i) /\ i < QUEUE[1]

\* C8: in every state, between any two container accesses of the handlers,
\* every id in QUEUE occurs there once and has a record in SIGNALS.
C8_QueuedIdsHaveRecords ==
    \A i \in 1..Len(QUEUE) :
        /\ InStore(QUEUE[i])
        /\ \A j \in 1..Len(QUEUE) : QUEUE[j] = QUEUE[i] => j = i

\* two handlers are between their container accesses, one of them a removal
\* that has taken its id out of QUEUE and not yet out of SIGNALS
C8_Witness ==
    \E t, u \in Threads :
        /\ t # u
        /\ pc[t] \in {"pop_delete", "tg_deny_delete"}
        /\ InStore(loc[t].sid) /\ ~InQueue(loc[t].sid)
        /\ pc[u] \in {"tv_append", "next_get", "pop_delete", "tg_deny_remove"}
        /\ QUEUE # <<>>

\* the ids that are in both q and r are in the same order in both
SameOrder(q, r) ==
    \A i, j \in 1..Len(q) :
        (i < j /\ q[i] \in Range(r) /\ q[j] \in Range(r))
            => \A k, l \in 1..Len(r) : (r[k] = q[i] /\ r[l] = q[j]) => k < l

\* C9: no step reorders QUEUE and an appended id goes to the tail; /next reads
\* the id at the head, answers with the record of the id it read, and answers
\* null only when QUEUE is empty or its head is the id it found no record of.
C9_FifoNext ==
    [][/\ SameOrder(QUEUE, QUEUE')
       /\ \A i \in Range(QUEUE') \ Range(QUEUE) : QUEUE'[Len(QUEUE')] = i
       /\ \A t \in Threads :
            /\ (pc[t] = "next_head" /\ pc'[t] = "next_get") => loc'[t].sid = QUEUE[1]
            /\ (pc[t] = "next_return" /\ Stepped(t))
                  => Len(resp'[t].signal) = 1 /\ resp'[t].signal[1].id = loc[t].sid
            /\ (pc[t] = "next_popleft" /\ Stepped(t) /\ resp'[t].code = 200)
                  => QUEUE = <<>> \/ QUEUE[1] = loc[t].sid]_vars

\* str(price) reads as a number, for the prices the requests carry
ParsesAsNumber(price) == price = "1.25"

\* C10: a POST /tv whose ordertype is not market and whose price is missing or
\* no number does not get past validation.
C10_BadPriceRejected ==
    \A t \in Threads :
        pc[t] \in TvPcs => (loc[t].ordertype = S_market \/ ParsesAsNumber(loc[t].price))

\* s is empty once trimmed
BlankString(s) == \A i \in 1..Len(s) : s[i] = " "

\* a and b are the same word but for upper and lower case
SameWord(a, b) == Len(a) = Len(b) /\ \A i \in 1..Len(a) : LowerChar(a[i]) = LowerChar(b[i])

\* the body carries the configured secret
Authorised(data) == "secret" \in DOMAIN data /\ data.secret = SECRET

\* the POST /tv bodies that carry an empty symbol, a side that is neither buy
\* nor sell, or an empty ordertype
InvalidTvBodies ==
    { data \in TvBodies :
        \/ BlankString(GetOrEmpty(data, "symbol"))
        \/ \A w \in {S_buy, S_sell} : ~SameWord(Strip(GetOrEmpty(data, "side")), w)
        \/ BlankString(GetOrEmpty(data, "ordertype")) }

\* C11: with a SECRET configured, an authorised POST /tv with an empty symbol,
\* a side outside buy and sell, or an empty ordertype is answered 400, and a
\* /tv request answered 400 allocates no id and changes neither QUEUE nor
\* SIGNALS.
C11_InvalidFieldsRejected ==
    /\ [](\A data \in InvalidTvBodies :
            (SECRET # "" /\ Authorised(data))
                => TvCheck(data).route = "tv" /\ TvCheck(data).code = 400)
    /\ [][\A t \in Threads :
            (pc[t] = "idle" /\ pc'[t] = "done" /\ resp'[t].route = "tv"
                 /\ resp'[t].code = 400)
                => UNCHANGED <<QUEUE, SIGNALS, signal, nextId>>]_vars

\* a /tv request has been answered "invalid side" while signals are queued
C11_Witness ==
    \E t \in Threads :
        /\ pc[t] = "done" /\ resp[t] = bad("tv", "invalid side", 400)
        /\ QUEUE # <<>>

\* C12: with a SECRET configured, a POST /tv or POST /pop whose secret is
\* absent or differs is answered 401 whatever its other fields, and a request
\* answered 401 changes neither QUEUE nor SIGNALS.
C12_WrongSecretRejected ==
    /\ [](SECRET # "" =>
            /\ \A data \in TvBodies :
                 ~Authorised(data) => TvCheck(data) = bad("tv", "unauthorized", 401)
            /\ \A data \in PopBodies :
                 ~Authorised(data) => PopCheck(data) = bad("pop", "unauthorized", 401))
    /\ [][\A t \in Threads :
            (pc[t] = "idle" /\ pc'[t] = "done" /\ resp'[t].code = 401)
                => UNCHANGED <<QUEUE, SIGNALS, signal, nextId>>]_vars

\* with a SECRET configured and signals queued, a /pop and a /tv have been
\* answered 401
C12_Witness ==
    /\ SECRET # "" /\ QUEUE # <<>>
    /\ \E t, u \in Threads :
        /\ pc[t] = "done" /\ resp[t] = bad("pop", "unauthorized", 401)
        /\ pc[u] = "done" /\ resp[u] = bad("tv", "unauthorized", 401)

\* the callbacks of TgBodies whose data is in BareData
BareCallbacks ==
    { [callback_query |-> [id |-> "cb", data |-> d, message |-> [chat |-> [id |-> c]]]] :
          d \in BareData, c \in {ApproverChat, OtherChat} }
    \cup { [callback_query |-> [id |-> "cb", data |-> d]] : d \in BareData }

\* the chat of the callback is the one the server obeys
FromApprover(upd) ==
    TG_CHAT_ID = ""
        \/ ("message" \in DOMAIN upd.callback_query
               /\ Str(upd.callback_query.message.chat.id) = TG_CHAT_ID)

\* C13: a /tg callback from the approver whose data has no colon, whose id
\* has no record, or whose action is neither APPROVE nor DENY is answered ok
\* at once, and a /tg answered "Accion invalida" or "Senal no encontrada"
\* has changed neither QUEUE, nor SIGNALS, nor any record.
C13_BadCallbackChangesNothing ==
    /\ [](\A upd \in BareCallbacks :
            (FromApprover(upd)
                 /\ \A k \in 1..Len(upd.callback_query.data) :
                        upd.callback_query.data[k] # Colon)
                => TgCheck(upd) = tg_ok("Accion invalida") /\ TgCheck(upd).code = 200)
    /\ [][\A t \in Threads :
            /\ (pc[t] = "tg_get" /\ Stepped(t)
                   /\ (loc[t].sid \notin DOMAIN SIGNALS
                          \/ loc[t].action \notin {APPROVE, DENY}))
                => /\ pc'[t] = "done" /\ resp'[t].code = 200
                   /\ resp'[t].ack \in {"Accion invalida", "Senal no encontrada"}
            /\ (Stepped(t) /\ pc'[t] = "done" /\ resp'[t].route = "tg"
                   /\ resp'[t].ack \in {"Accion invalida", "Senal no encontrada"})
                => UNCHANGED <<QUEUE, SIGNALS, signal, nextId>>]_vars

\* with signals queued, one callback has been answered "Senal no encontrada"
\* and another "Accion invalida"
C13_Witness ==
    /\ QUEUE # <<>>
    /\ \E t, u \in Threads :
        /\ pc[t] = "done" /\ resp[t].ack = "Senal no encontrada"
        /\ pc[u] = "done" /\ resp[u].ack = "Accion invalida"

\* q with every entry equal to x left out
Without(q, x) == SelectSeq(q, LAMBDA y : y # x)

\* the ids in SIGNALS' keep the record and the status they have in SIGNALS
KeptRecordsUnchanged ==
    \A i \in DOMAIN SIGNALS' :
        i \in DOMAIN SIGNALS /\ SIGNALS'[i] = SIGNALS[i]
            /\ signal'[SIGNALS'[i]] = signal[SIGNALS[i]]

\* C14: the QUEUE step of an authorised /pop takes exactly the named id out
\* of QUEUE, wherever it stands, and keeps the others in order; its SIGNALS
\* step takes exactly the named id out of SIGNALS; for an id in neither
\* container both steps change nothing; and the request is answered ok.
C14_PopRemovesExactlyTheId ==
    [][\A t \in Threads : Stepped(t) =>
          /\ pc[t] = "pop_remove"
                => QUEUE' = Without(QUEUE, loc[t].sid) /\ UNCHANGED <<SIGNALS, signal>>
          /\ pc[t] = "pop_delete"
                => /\ DOMAIN SIGNALS' = DOMAIN SIGNALS \ {loc[t].sid}
                   /\ KeptRecordsUnchanged
                   /\ QUEUE' = QUEUE
          /\ (pc[t] \in {"pop_remove", "pop_delete"} /\ ~InQueue(loc[t].sid)
                   /\ ~InStore(loc[t].sid))
                => UNCHANGED <<QUEUE, SIGNALS>>
          /\ pc[t] = "pop_return"
                => /\ resp'[t].code = 200 /\ resp'[t].error = ""
                   /\ UNCHANGED <<QUEUE, SIGNALS, signal>>]_vars

\* a /pop has taken an id that was not at the head out of QUEUE and is about
\* to delete its record
C14_Witness ==
    \E t \in Threads :
        /\ pc[t] = "pop_delete"
        /\ InStore(loc[t].sid) /\ ~InQueue(loc[t].sid)
        /\ QUEUE # <<>> /\ QUEUE[1] < loc[t].sid

\* C15: the step of an APPROVE callback on a signal that is approved already
\* leaves QUEUE, SIGNALS and every stored record as they are, and the
\* callback is answered as the first one was.
C15_ReapproveChangesNothing ==
    [][\A t \in Threads :
          (pc[t] = "tg_approve" /\ Stepped(t) /\ signal[loc[t].sig].status = "approved")
              => /\ UNCHANGED <<QUEUE, SIGNALS>>
                 /\ \A i \in DOMAIN SIGNALS : signal'[SIGNALS'[i]] = signal[SIGNALS[i]]
                 /\ resp'[t].code = 200 /\ resp'[t].ack = "Aceptada"]_vars

\* the only signal created has been approved twice and is queued, approved
C15_Witness ==
    /\ nextId = 2 /\ QUEUE = <<1>> /\ InStore(1)
    /\ signal[SIGNALS[1]].status = "approved"
    /\ \A t \in Threads : pc[t] = "done" /\ resp[t].ack = "Aceptada"

\* C16: an id leaves QUEUE only by the QUEUE.remove of a /pop or of a DENY
\* that names it, by the append that overflows QUEUE while it is at the head,
\* or by the popleft of a /next while it has no record.
C16_OnlyNamedRemovals ==
    [][\A i \in Range(QUEUE) \ Range(QUEUE') :
          \E t \in Threads :
              /\ Stepped(t)
              /\ \/ pc[t] \in {"pop_remove", "tg_deny_remove"} /\ loc[t].sid = i
                 \/ pc[t] = "tv_append" /\ Len(QUEUE) >= maxlen /\ i = QUEUE[1]
                 \/ pc[t] = "next_popleft" /\ ~InStore(i)]_vars

\* C17: no completed /next response carries a record whose status is denied.
C17_NextNeverShowsDenied ==
    \A t \in Threads :
        (pc[t] = "done" /\ resp[t].route = "next" /\ resp[t].signal # NoSignal)
            => resp[t].signal[1].status # "denied"

\* C18: in every state, between any two steps of the handlers, the ids in
\* QUEUE are the keys of SIGNALS.
C18_QueueIsStoreKeys == Range(QUEUE) = DOMAIN SIGNALS

\* the response r without the results of its Telegram calls
Http(r) == [r EXCEPT !.tg = <<>>]

\* every stored record is what it was
RecordsUnchanged ==
    \A i \in DOMAIN SIGNALS : signal'[SIGNALS[i]] = signal[SIGNALS[i]]

\* C19: whatever the results of the Telegram calls of a /tv or /tg request,
\* the step that makes them leaves QUEUE and SIGNALS as the handler had set
\* them and gives the one HTTP response the handler gives when every call
\* succeeds: /tv keeps the signal stored and queued and answers ok with its
\* id, APPROVE leaves the record approved, DENY leaves the record removed,
\* and every /tg is answered 200.
C19_DeliveryIsSoft ==
    [][\A t \in Threads : Stepped(t) =>
          /\ pc[t] = "tv_return"
                => /\ UNCHANGED <<QUEUE, SIGNALS>> /\ RecordsUnchanged
                   /\ Http(resp'[t]) = ok("tv", loc[t].sid, Len(QUEUE), NoSignal)
          /\ pc[t] = "tg_approve"
                => /\ UNCHANGED <<QUEUE, SIGNALS>>
                   /\ \A i \in DOMAIN SIGNALS :
                        signal'[SIGNALS[i]] =
                            IF SIGNALS[i] = loc[t].sig
                            THEN [signal[SIGNALS[i]] EXCEPT !.status = "approved"]
                            ELSE signal[SIGNALS[i]]
                   /\ Http(resp'[t]) = tg_ok("Aceptada")
          /\ pc[t] = "tg_deny_delete"
                => /\ QUEUE' = QUEUE
                   /\ DOMAIN SIGNALS' = DOMAIN SIGNALS \ {loc[t].sid}
                   /\ KeptRecordsUnchanged
                   /\ Http(resp'[t]) = tg_ok("Denegada")
          /\ (pc[t] \in {"idle", "tg_get"} /\ pc'[t] = "done" /\ resp'[t].route = "tg")
                => /\ UNCHANGED <<QUEUE, SIGNALS, signal>>
                   /\ Http(resp'[t]) = tg_ok(resp'[t].ack)]_vars

\* a /tv has been answered ok although its approval message raised an
\* exception, and a DENY has been answered although both its calls failed;
\* the signal of the /tv is stored and queued
C19_Witness ==
    \E t, u \in Threads :
        /\ pc[t] = "done" /\ resp[t].route = "tv" /\ resp[t].code = 200
        /\ resp[t].tg = <<tg_api("exception")>>
        /\ InQueue(resp[t].id) /\ InStore(resp[t].id)
        /\ pc[u] = "done" /\ resp[u].ack = "Denegada"
        /\ resp[u].tg = <<tg_api("exception"), tg_api("not_ok")>>

\* no handler is between its first and its last step
Quiescent == \A t \in Threads : pc[t] \in {"idle", "done"}

\* C20: whenever no handler is mid-request every record in SIGNALS is pending
\* or approved, and the record a /tv is storing or has stored but not yet
\* queued is pending.
C20_StoredStatuses ==
    /\ Quiescent =>
          \A i \in DOMAIN SIGNALS : signal[SIGNALS[i]].status \in {"pending", "approved"}
    /\ \A t \in Threads :
          pc[t] \in {"tv_store", "tv_append"} => signal[loc[t].sid].status = "pending"

\* no handler is mid-request, a DENY has completed, and SIGNALS holds an
\* approved record and a pending one
C20_Witness ==
    /\ Quiescent
    /\ \E t \in Threads : pc[t] = "done" /\ resp[t].ack = "Denegada"
    /\ \E i, j \in DOMAIN SIGNALS :
          signal[SIGNALS[i]].status = "approved" /\ signal[SIGNALS[j]].status = "pending"

====
